---- MODULE Spec2Model ----
(***************************************************************************)
(* Modified Kostiakov-Lewis infiltration for the ANUGA flow model          *)
(* (kostiakov.py, class Kostiakov) and the evolve loop that drives it.     *)
(*                                                                         *)
(* Arithmetic is exact.  Time is counted in seconds.  Depth is counted in  *)
(* units of 1 mm / 3600^2, the coarsest unit in which the three unit       *)
(* conversions of __init__ come out whole for the exponents a in 0..2.     *)
(* A rate is the exact fraction <<numerator, denominator>>.                *)
(***************************************************************************)
EXTENDS Integers, FiniteSets, Sequences, TLC

\* ------------------------------------------------------------------ bounds
\* Number of mesh cells, len(domain).
NumCells == 1
\* The evolve loop's finaltime, in seconds.
MaxTime == 4
\* Number of mesh cells in the runs with diagnostics (test_inf = True).
DiagCells == 2

\* ------------------------------------------------------------ input domains
\* Values domain.get_timestep() takes (seconds).
TimeSteps == {1, 2}
\* The 3600 of the conversions mm/hr -> m/s.
SecPerHour == 3600
\* Depth units per millimetre: the 0.001 of the conversions.
DepthScale == SecPerHour * SecPerHour
\* Values stage - elevation takes at a centroid: none, a film, 1 mm.
WaterDepths == {0, 2000, DepthScale}
\* Values domain.get_minimum_allowed_height() takes.
MinDepths == {0, 3000}
\* The dictionaries mk handed to the constructor (a; k mm/hr^a; f0 mm/hr; C mm).
MkInputs == [a : {0, 1, 2}, k : {0, 1}, f0 : {0, 1}, C : {0, 1}]

VARIABLES
    ncells,           \* len(domain)
    a, k, f0, C,      \* self.a, self.k, self.f0, self.C (converted)
    mwd,              \* self.mwd
    elev,             \* self.elev
    inf_t,            \* self.inf_t
    inf_pot,          \* self.inf_pot
    inf_cum,          \* self.inf_cum
    inf_rate,         \* self.inf_rate
    inft_pow,         \* self.inft_pow
    time,             \* domain.get_time()
    tstep,            \* tstep of the latest mk_infilt call
    wdepth,           \* wdepth of the latest mk_infilt call
    t_in,             \* self.inf_t as the latest call found it
    pot_in,           \* self.inf_pot as the latest call found it
    pot_seen,         \* self.inf_pot as lines 105-106 of the latest call read it
    starts,           \* per cell, how often lines 90-93 have acted on it
    last_wet,         \* per cell, <<inf_t, inf_pot>> as its latest wet call left them
    dried,            \* per cell, whether a call found it dry after its episode began
    calls,            \* how many calls of mk_infilt have been made
    invoked,          \* how many times the rate operator has called infilt_function
    ret,              \* what the latest infilt_function returned
    raised,           \* the exception the latest call of mk_infilt raised
    test,             \* self.test, the scripts' test_infiltration
    built,            \* whether __init__ has returned
    xcoord, ycoord,   \* the centroid coordinates __init__ reads
    extent,           \* poly_extent: <<xmin, xmax, ymin, ymax>>
    scan_k,           \* the loop variable k of __init__, counted from 1
    short_d,          \* short_d, as the square of the distance
    index_k,          \* self.index_k, counted from 1
    self_x, self_y,   \* self.x, self.y
    model_time,       \* self.model_time
    cell_oppt,        \* self.cell_oppt
    cell_inf,         \* self.cell_inf
    cell_unsat,       \* self.cell_unsat
    cell_wdepth,      \* self.cell_wdepth
    csv               \* the lines of cell_infilt<index_k>.csv, <<>> while unwritten

vars == <<ncells, a, k, f0, C, mwd, elev, inf_t, inf_pot, inf_cum, inf_rate, inft_pow,
          time, tstep, wdepth, t_in, pot_in, pot_seen, starts, last_wet, dried,
          calls, invoked, ret, raised,
          test, built, xcoord, ycoord, extent, scan_k, short_d, index_k,
          self_x, self_y, model_time, cell_oppt, cell_inf, cell_unsat,
          cell_wdepth, csv>>

\* The five lists of the tracked cell's history.
histVars == <<model_time, cell_oppt, cell_inf, cell_unsat, cell_wdepth>>

\* range(len(domain)), counted from 1.
Cells == 1..ncells

\* The variables the scan of __init__ leaves alone.
fieldVars == <<ncells, a, k, f0, C, mwd, elev, inf_t, inf_pot, inf_cum, inf_rate,
               inft_pow, time, tstep, wdepth, t_in, pot_in, pot_seen, starts,
               last_wet, dried, calls, invoked, ret, raised, csv>>

\* The variables mk_infilt leaves alone.
scanVars == <<test, built, xcoord, ycoord, extent, scan_k, short_d, index_k,
              self_x, self_y>>

\* ------------------------------------------------------------- arithmetic
\* x ** n for a whole exponent; numpy gives x ** 0 = 1, also for x = 0.
RECURSIVE Pow(_, _)
Pow(x, n) == IF n = 0 THEN 1 ELSE x * Pow(x, n - 1)

\* np.zeros(n)
Zeros == [c \in Cells |-> 0]

\* The rate 0 of np.zeros.
ZeroRate == <<0, 1>>

\* p / t as an exact fraction.
Div(p, t) == <<p, t>>

\* r * t for a rate r whose denominator divides t * numerator.
Times(r, t) == (r[1] * t) \div r[2]

\* What a float holds after 0 * (x / 0): not a number.
NaN == "nan"

\* A call that returns normally has raised nothing.
NoError == "none"

\* Equality and order of fractions with positive denominators.
RateEq(r, s) == r[1] * s[2] = s[1] * r[2]
RateGeq0(r) == r[2] > 0 /\ r[1] >= 0

\* ---------------------------------------------------------- construction
\* mk['k'] * 0.001 / (3600.**self.a)
ConvK(kin, ain) == (kin * DepthScale) \div Pow(SecPerHour, ain)
\* mk['f0'] * 0.001 / 3600.
ConvF0(fin) == (fin * DepthScale) \div SecPerHour
\* mk['C'] * 0.001
ConvC(cin) == cin * DepthScale

\* Bed elevation at the centroids: the bed falls along the channel.
Topography(c) == 0 - (100 * c)

\* Lines 23-36 of Kostiakov.__init__(domain, mk) on a domain of n cells whose
\* minimum allowed height is h.
Fields(mk, h, n) ==
        /\ ncells = n
        /\ a = mk.a
        /\ k = ConvK(mk.k, mk.a)
        /\ f0 = ConvF0(mk.f0)
        /\ C = ConvC(mk.C)
        /\ elev = [c \in Cells |-> Topography(c)]
        /\ inf_t = Zeros
        /\ inf_pot = Zeros
        /\ inf_cum = Zeros
        /\ inf_rate = [c \in Cells |-> ZeroRate]
        /\ inft_pow = Zeros
        /\ mwd = h
        /\ time = 0
        /\ tstep = 0
        /\ wdepth = Zeros
        /\ t_in = Zeros
        /\ pot_in = Zeros
        /\ pot_seen = Zeros
        /\ starts = Zeros
        /\ last_wet = [c \in Cells |-> <<0, 0>>]
        /\ dried = [c \in Cells |-> FALSE]
        /\ calls = 0
        /\ invoked = 0
        /\ ret = [c \in Cells |-> ZeroRate]
        /\ raised = NoError
        /\ csv = <<>>

\* An attribute or local that has not been set.
NoAttr == "unset"

\* short_d = 1.0e+100, beyond the square of every distance in the mesh.
Far == 1000000

\* The centroids and the extent of a channel of n cells, each 2 long, with
\* a margin of 2 at its right end.
ChannelCentroids(n) == [c \in 1..n |-> <<2 * c - 1, 1>>]
ChannelExtent(n) == <<0, 2 * n + 2, 0, 4>>

\* x1 = (poly_extent[1] - poly_extent[0])/2
X1(ext) == (ext[2] - ext[1]) \div 2

\* y1 = (poly_extent[3] - poly_extent[2])/4
Y1(ext) == (ext[4] - ext[3]) \div 4

\* math.hypot(dx, dy), as its square: the order of two distances is the order
\* of their squares.
Hypot2(dx, dy) == dx * dx + dy * dy

\* One pass of the loop body, lines 46-48, for k = kk: <<short_d, index_k>>
\* after it.
ScanIter(kk, sd, ik, xs, ys, ext) ==
    LET d == Hypot2(xs[kk] - X1(ext), ys[kk] - Y1(ext))
    IN  IF d < sd THEN <<d, kk>> ELSE <<sd, ik>>

\* The loop of lines 45-48 from k = kk to its end.
RECURSIVE ScanFrom(_, _, _, _, _, _, _)
ScanFrom(kk, n, sd, ik, xs, ys, ext) ==
    IF kk > n THEN <<sd, ik>>
    ELSE LET r == ScanIter(kk, sd, ik, xs, ys, ext)
         IN  ScanFrom(kk + 1, n, r[1], r[2], xs, ys, ext)

\* Lines 38-44: the state in which the loop of __init__ starts, on centroids
\* cc and extent ext.
ScanStart(n, cc, ext) ==
    /\ test = TRUE
    /\ built = FALSE
    /\ xcoord = [c \in 1..n |-> cc[c][1]]
    /\ ycoord = [c \in 1..n |-> cc[c][2]]
    /\ extent = ext
    /\ short_d = Far
    /\ scan_k = 1
    /\ index_k = NoAttr
    /\ self_x = NoAttr
    /\ self_y = NoAttr
    /\ model_time = NoAttr
    /\ cell_oppt = NoAttr
    /\ cell_inf = NoAttr
    /\ cell_unsat = NoAttr
    /\ cell_wdepth = NoAttr

\* Kostiakov.__init__(domain, mk, test_inf) as a whole.
Construct(mk, h, n, test_inf, cc, ext) ==
    /\ Fields(mk, h, n)
    /\ test = test_inf
    /\ built = TRUE
    /\ IF test_inf
         THEN LET xs == [c \in 1..n |-> cc[c][1]]
                  ys == [c \in 1..n |-> cc[c][2]]
                  r == ScanFrom(1, n, Far, NoAttr, xs, ys, ext)
              IN  /\ xcoord = xs
                  /\ ycoord = ys
                  /\ extent = ext
                  /\ short_d = r[1]
                  /\ scan_k = n + 1
                  /\ index_k = r[2]
                  /\ self_x = xs[r[2]]
                  /\ self_y = ys[r[2]]
                  /\ model_time = <<>>
                  /\ cell_oppt = <<>>
                  /\ cell_inf = <<>>
                  /\ cell_unsat = <<>>
                  /\ cell_wdepth = <<>>
         ELSE /\ xcoord = NoAttr
              /\ ycoord = NoAttr
              /\ extent = NoAttr
              /\ short_d = NoAttr
              /\ scan_k = NoAttr
              /\ index_k = NoAttr
              /\ self_x = NoAttr
              /\ self_y = NoAttr
              /\ model_time = NoAttr
              /\ cell_oppt = NoAttr
              /\ cell_inf = NoAttr
              /\ cell_unsat = NoAttr
              /\ cell_wdepth = NoAttr

\* The scripts build a model from the dictionaries of MkInputs; here with
\* test_infiltration = False.
Init ==
    \E mk \in MkInputs, h \in MinDepths :
        Construct(mk, h, NumCells, FALSE,
                  ChannelCentroids(NumCells), ChannelExtent(NumCells))

\* ------------------------------------------------------------- mk_infilt
\* The array statements of mk_infilt act on each cell by itself, so a pass
\* is written as what it does to one cell of its index set.

\* wdepth >= self.mwd
Wet(wd) == wd >= mwd

\* Variant: the episode-start pass takes every wet cell.
InStartAnyWet(wd, t) == Wet(wd)

\* idx: np.logical_and(wdepth >= self.mwd, self.inf_t == 0)
InStart(wd, t) == Wet(wd) /\ t = 0

\* Variant: the continuation pass takes every wet cell.
InContinueAnyWet(wd, pot) == Wet(wd)

\* idx1: np.logical_and(wdepth >= self.mwd, self.inf_pot == 0)
InContinue(wd, pot) == Wet(wd) /\ pot = 0

\* idx2: np.logical_and(wdepth >= self.mwd, self.inf_pot < wdepth)
InCapacity(wd, pot) == Wet(wd) /\ pot < wd

\* Variant: the water-limited pass takes every wet cell.
InWaterAlways(wd, pot) == Wet(wd)

\* idx3: np.logical_and(wdepth >= self.mwd, self.inf_pot >= wdepth)
InWater(wd, pot) == Wet(wd) /\ pot >= wd

\* Variant: the crack-fill term is left out.
StartPotentialNoCrack(pw, t) == k * pw + f0 * t

\* self.k * self.inft_pow[idx] + self.f0 * self.inf_t[idx] + self.C
StartPotential(pw, t) == k * pw + f0 * t + C

\* Variant: the powers are subtracted the other way round.
MarginalPotentialSwapped(pw, inft, ts) == k * (inft - pw) + f0 * ts

\* Variant: the old power is not subtracted.
MarginalPotentialFull(pw, inft, ts) == k * pw + f0 * ts

\* self.k * (self.inft_pow[idx1] - inft) + self.f0 * tstep
MarginalPotential(pw, inft, ts) == k * (pw - inft) + f0 * ts

\* Variant: the cached power old is kept.
ContinuePowerStale(t, old) == old

\* self.inft_pow[idx1] = self.inf_t[idx1] ** self.a, over the cached old
ContinuePower(t, old) == Pow(t, a)

\* Variant: the timestep is subtracted.
ContinueTimeBack(t, ts) == t - ts

\* self.inf_t[idx1] += tstep
ContinueTime(t, ts) == t + ts

\* Variant: the potential depth is not divided by the timestep.
CapacityRateNoStep(pot, ts) == Div(pot, 1)

\* self.inf_rate[idx2] = self.inf_pot[idx2] / tstep
CapacityRate(pot, ts) == Div(pot, ts)

\* Variant: the water depth is not divided by the timestep.
WaterRateNoStep(wd, ts) == Div(wd, 1)

\* self.inf_rate[idx3] = wdepth[idx3] / tstep
WaterRate(wd, ts) == Div(wd, ts)

\* Variant: the water depth is not subtracted.
WaterRemainderKept(pot, wd) == pot

\* self.inf_pot[idx3] -= wdepth[idx3]
WaterRemainder(pot, wd) == pot - wd

\* Variant: the rate array of the call before is kept.
ResetRateKept(r) == r

\* self.inf_rate = np.zeros(len(wdepth)): the rate r of the call before is
\* dropped, and a cell outside idx2 and idx3 keeps the 0.
ResetRate(r) == ZeroRate

\* self.inf_cum += self.inf_rate * tstep.  A rate x / 0 is infinite or not
\* a number (numpy warns and goes on), and its product with tstep = 0 is not
\* a number.
Accumulate(cum, r, ts) == IF r[2] = 0 THEN NaN ELSE cum + Times(r, ts)

\* What lines 81-118 raise when the timestep is ts: they hold no test of
\* tstep and no raise statement.
Raises(ts) == NoError

\* mk_infilt on one cell: wd is its wdepth, ts the timestep, s its fields.
CellStep(ts, wd, s) ==
    LET \* lines 88-93
        start == InStart(wd, s.t)
        t1 == IF start THEN ts ELSE s.t
        pw1 == IF start THEN Pow(t1, a) ELSE s.pow
        pot1 == IF start THEN StartPotential(pw1, t1) ELSE s.pot
        \* lines 98-103
        cont == InContinue(wd, pot1)
        inft == pw1
        t2 == IF cont THEN ContinueTime(t1, ts) ELSE t1
        pw2 == IF cont THEN ContinuePower(t2, pw1) ELSE pw1
        pot2 == IF cont THEN MarginalPotential(pw2, inft, ts) ELSE pot1
        \* lines 105-106
        cap == InCapacity(wd, pot2)
        wat == InWater(wd, pot2)
        \* lines 109-111
        rate1 == IF cap THEN CapacityRate(pot2, ts) ELSE ResetRate(s.rate)
        pot3 == IF cap THEN 0 ELSE pot2
        \* lines 113-115
        rate2 == IF wat THEN WaterRate(wd, ts) ELSE rate1
        pot4 == IF wat THEN WaterRemainder(pot3, wd) ELSE pot3
    IN  [t |-> t2, pow |-> pw2, pot |-> pot4, rate |-> rate2,
         cum |-> Accumulate(s.cum, rate2, ts),
         seen |-> pot2,
         starts |-> IF start THEN s.starts + 1 ELSE s.starts]

\* The fields of cell c.
Cell(c) == [t |-> inf_t[c], pow |-> inft_pow[c], pot |-> inf_pot[c],
            rate |-> inf_rate[c], cum |-> inf_cum[c], starts |-> starts[c]]

\* Variant: the history is taken from the first cell.
TrackedFirst(arr) == arr[1]

\* arr[self.index_k]
Tracked(arr) == arr[index_k]

\* One call of mk_infilt(domain, tst) while the domain's timestep is ts and
\* its stage is stage, followed by the evolve loop's advance of the time by
\* ts.
mk_infilt(ts, stage, tst) ==
    /\ time + ts <= MaxTime
    /\ \E wd \in {[c \in Cells |-> stage[c] - elev[c]]} :
       \E new \in {[c \in Cells |-> CellStep(ts, wd[c], Cell(c))]} :
        /\ tstep' = ts
        /\ wdepth' = wd
        /\ inf_t' = [c \in Cells |-> new[c].t]
        /\ inft_pow' = [c \in Cells |-> new[c].pow]
        /\ inf_pot' = [c \in Cells |-> new[c].pot]
        /\ inf_rate' = [c \in Cells |-> new[c].rate]
        /\ inf_cum' = [c \in Cells |-> new[c].cum]
        /\ pot_seen' = [c \in Cells |-> new[c].seen]
        /\ starts' = [c \in Cells |-> new[c].starts]
        /\ last_wet' = [c \in Cells |->
                IF Wet(wd[c]) THEN <<new[c].t, new[c].pot>> ELSE last_wet[c]]
        /\ dried' = [c \in Cells |-> dried[c] \/ (~Wet(wd[c]) /\ inf_t[c] > 0)]
    /\ t_in' = inf_t
    /\ pot_in' = inf_pot
    /\ IF tst
         THEN /\ cell_oppt' = Append(cell_oppt, Tracked(inf_t'))
              /\ cell_inf' = Append(cell_inf, Tracked(inf_cum'))
              /\ cell_unsat' = Append(cell_unsat, Tracked(inf_pot'))
              /\ cell_wdepth' = Append(cell_wdepth, Tracked(wdepth'))
              /\ model_time' = Append(model_time, time)
         ELSE UNCHANGED histVars
    /\ time' = time + ts
    /\ calls' = calls + 1
    /\ raised' = Raises(ts)
    /\ UNCHANGED <<ncells, a, k, f0, C, mwd, elev>>
    /\ UNCHANGED scanVars
    /\ UNCHANGED csv

\* Variant: the rate is handed back as it is.
NegateForgotten(r) == r

\* The unary minus of -kost.inf_rate, on one cell's rate.
Negate(r) == <<0 - r[1], r[2]>>

\* infilt_function(x, y), the rate of the Rate_operator: one call of
\* mk_infilt, then the negated rate array is returned.
infilt_function(ts, stage) ==
    /\ built
    /\ mk_infilt(ts, stage, test)
    /\ ret' = [c \in Cells |-> Negate(inf_rate'[c])]
    /\ invoked' = invoked + 1

\* The evolve loop: each step the domain offers a timestep and a stage and
\* the rate operator asks infilt_function for the rate.
Next ==
    \E ts \in TimeSteps, wd \in [Cells -> WaterDepths] :
        infilt_function(ts, [c \in Cells |-> elev[c] + wd[c]])

Spec == Init /\ [][Next]_vars

\* Dictionaries with negative entries as well.
MkInputsAny == [a : {0, 1, 2}, k : {-1, 0, 1}, f0 : {-1, 0, 1}, C : {-1, 0, 1}]

\* The scripts' test before they build a model:
\* if sum(kost_lewis.values()) < 0.000001 there is no infiltration.
ScriptBuilds(mk) == ~(mk.a + mk.k + mk.f0 + mk.C < 1)

\* The scripts, with any dictionary that passes their test.
InitAnyParams ==
    \E mk \in MkInputsAny, h \in MinDepths :
        /\ ScriptBuilds(mk)
        /\ Construct(mk, h, NumCells, FALSE,
                     ChannelCentroids(NumCells), ChannelExtent(NumCells))

SpecAnyParams == InitAnyParams /\ [][Next]_vars

\* ---------------------------------------------- the scan of __init__
\* Extents domain.get_extent() takes: 8 wide and 8 high, from 0 or from 4.
DiagExtents ==
    {<<x0, x0 + 8, y0, y0 + 8>> : x0 \in {0, 4}, y0 \in {0, 4}}

\* Centroids inside the extent ext.
DiagCentroids(ext) ==
    {<<ext[1] + dx, ext[3] + dy>> : dx \in {1, 5}, dy \in {1, 5}}

\* A dictionary with every entry positive.
DiagMk == [a |-> 2, k |-> 1, f0 |-> 1, C |-> 1]

\* __init__ with test_inf = True, up to the start of its loop.
InitDiag ==
    \E ext \in DiagExtents, h \in MinDepths \ {0} :
        \E cc \in [1..DiagCells -> DiagCentroids(ext)] :
            /\ Fields(DiagMk, h, DiagCells)
            /\ ScanStart(DiagCells, cc, ext)

\* One pass of the loop, lines 45-48.
Scan ==
    /\ test /\ ~built
    /\ scan_k <= ncells
    /\ \E r \in {ScanIter(scan_k, short_d, index_k, xcoord, ycoord, extent)} :
          /\ short_d' = r[1]
          /\ index_k' = r[2]
    /\ scan_k' = scan_k + 1
    /\ UNCHANGED <<test, built, xcoord, ycoord, extent, self_x, self_y>>
    /\ UNCHANGED histVars
    /\ UNCHANGED fieldVars

\* The end of the loop and lines 50-56.
ScanEnd ==
    /\ test /\ ~built
    /\ scan_k > ncells
    /\ self_x' = xcoord[index_k]
    /\ self_y' = ycoord[index_k]
    /\ model_time' = <<>>
    /\ cell_oppt' = <<>>
    /\ cell_inf' = <<>>
    /\ cell_unsat' = <<>>
    /\ cell_wdepth' = <<>>
    /\ built' = TRUE
    /\ UNCHANGED <<test, xcoord, ycoord, extent, scan_k, short_d, index_k>>
    /\ UNCHANGED fieldVars

NextDiag == Scan \/ ScanEnd

SpecDiag == InitDiag /\ [][NextDiag]_vars

\* ------------------------------------------------- the recorded history
\* '%s' % v
Fmt(v) == ToString(v)

\* The header line: its five column names, then index_k, self.x and self.y.
Header ==
    <<"Model_time(s)", "Opp_time(s)", "Infiltration(m)", "Inf_pot(m)",
      "Wdepth(m)", Fmt(index_k), Fmt(self_x), Fmt(self_y)>>

\* Variant: the infiltration and the potential depth change columns.
RowSwapped(f1, f2, f3, f4, f5) == <<Fmt(f1), Fmt(f2), Fmt(f4), Fmt(f3), Fmt(f5)>>

\* fw.write('%s,%s,%s,%s,%s\n' % (f1, f2, f3, f4, f5))
Row(f1, f2, f3, f4, f5) == <<Fmt(f1), Fmt(f2), Fmt(f3), Fmt(f4), Fmt(f5)>>

\* The length of zip(...): that of the shortest list.
ZipLen ==
    CHOOSE n \in 0..Len(model_time) :
        /\ \A h \in {model_time, cell_oppt, cell_inf, cell_unsat, cell_wdepth} :
               n <= Len(h)
        /\ \E h \in {model_time, cell_oppt, cell_inf, cell_unsat, cell_wdepth} :
               n = Len(h)

\* save_infiltration_test(pth), which the scripts call once the evolve loop
\* has ended, if test_infiltration.
save_infiltration_test ==
    /\ test /\ built
    /\ csv = <<>>
    /\ csv' = <<Header>> \o
               [i \in 1..ZipLen |->
                   Row(model_time[i], cell_oppt[i], cell_inf[i], cell_unsat[i],
                       cell_wdepth[i])]
    /\ UNCHANGED <<ncells, a, k, f0, C, mwd, elev, inf_t, inf_pot, inf_cum,
                   inf_rate, inft_pow, time, tstep, wdepth, t_in, pot_in,
                   pot_seen, starts, last_wet, dried, calls, invoked, ret,
                   raised>>
    /\ UNCHANGED scanVars
    /\ UNCHANGED histVars

\* Water that enters at the left end: no cell is deeper than the cell
\* upstream of it.
FrontProfiles ==
    {wd \in [Cells -> WaterDepths] : \A c \in Cells : c > 1 => wd[c] <= wd[c - 1]}

\* The script with test_infiltration = True: the evolve loop, then the export.
InitRecord ==
    \E h \in MinDepths :
        Construct(DiagMk, h, DiagCells, TRUE,
                  ChannelCentroids(DiagCells), ChannelExtent(DiagCells))

NextRecord ==
    \/ /\ csv = <<>>
       /\ \E ts \in TimeSteps, wd \in FrontProfiles :
             infilt_function(ts, [c \in Cells |-> elev[c] + wd[c]])
    \/ save_infiltration_test

SpecRecord == InitRecord /\ [][NextRecord]_vars

\* Timesteps outside the contract of mk_infilt.
BadTimeSteps == {-1, 0}

\* The evolve loop with a domain that may also offer a timestep <= 0.  The
\* run is followed up to the first such call and no further.
NextBadStep ==
    /\ calls = 0 \/ tstep > 0
    /\ \E ts \in TimeSteps \cup BadTimeSteps, wd \in [Cells -> WaterDepths] :
          infilt_function(ts, [c \in Cells |-> elev[c] + wd[c]])

SpecBadStep == Init /\ [][NextBadStep]_vars

\* ------------------------------------------------------------ properties
\* A call of mk_infilt has been made.
Called == time > 0

Min(x, y) == IF x <= y THEN x ELSE y

\* The depth cell c gave up in the latest call: inf_rate * tstep.
Infiltrated(c) == Times(inf_rate[c], tstep)

\* The Modified Kostiakov value k*T^a + f0*T + C with the converted parameters.
MK(T) == k * Pow(T, a) + f0 * T + C

\* C1: after every call and for every cell, the depth infiltrated in the call,
\* rate * timestep, is at most the water depth the call was given for the
\* cell; for a wet cell it is the smaller of the potential depth left by the
\* episode passes and the water depth.
C1_SinkWithinWater ==
    Called =>
        \A c \in Cells :
            /\ inf_rate[c][1] * tstep <= wdepth[c] * inf_rate[c][2]
            /\ Wet(wdepth[c]) =>
                   inf_rate[c][1] * tstep
                       = Min(pot_seen[c], wdepth[c]) * inf_rate[c][2]

\* C1 witness: in a call of two seconds a wet cell with more potential depth
\* than water gave up exactly its water depth, so the bound is met.
C1_Witness ==
    /\ Called /\ tstep = 2
    /\ \E c \in Cells :
        /\ Wet(wdepth[c]) /\ wdepth[c] > 0
        /\ pot_seen[c] > wdepth[c]
        /\ Infiltrated(c) = wdepth[c]

\* C2: after every call every cell's rate is >= 0, and no call lowers any
\* cell's cumulative infiltration.
C2_RateNonNegCumMonotone ==
    /\ [](\A c \in Cells : RateGeq0(inf_rate[c]))
    /\ [][\A c \in Cells : inf_cum'[c] >= inf_cum[c]]_vars

\* C2 witness: a cell with infiltration behind it infiltrates again.
C2_Witness ==
    \E c \in Cells :
        /\ inf_rate[c][1] > 0
        /\ inf_cum[c] > Infiltrated(c)
        /\ t_in[c] > 0

\* C3: in every reachable state every cell's potential depth is >= 0.
C3_PotentialNonNeg == \A c \in Cells : inf_pot[c] >= 0

\* C3 witness: the water-limited branch has subtracted a positive water
\* depth from potential depth a cell carried over from an earlier call.
C3_Witness ==
    \E c \in Cells :
        /\ Wet(wdepth[c]) /\ wdepth[c] > 0
        /\ pot_in[c] > 0
        /\ pot_seen[c] = pot_in[c]
        /\ inf_pot[c] = pot_seen[c] - wdepth[c]

\* C4: a cell whose opportunity time is 0 has potential depth 0, and at
\* construction every per-cell array is all zeros.
C4_UntouchedHasNoPotential ==
    /\ \A c \in Cells : inf_t[c] = 0 => inf_pot[c] = 0
    /\ ~Called =>
          \A c \in Cells :
              /\ inf_t[c] = 0 /\ inf_pot[c] = 0 /\ inf_cum[c] = 0
              /\ inft_pow[c] = 0 /\ inf_rate[c][1] = 0

\* C4 witness: calls have been made and a cell that held water below the
\* minimum depth in the latest one is still untouched.
C4_Witness ==
    \E c \in Cells :
        /\ time > 1
        /\ inf_t[c] = 0
        /\ wdepth[c] > 0

\* C5: a call that finds a cell's water depth below the minimum sets the
\* cell's rate to 0 and leaves its opportunity time, its cached power, its
\* potential depth and its cumulative infiltration as they were.
C5_DryCellNoOp ==
    [][\A c \in Cells :
          wdepth'[c] < mwd =>
              /\ RateEq(inf_rate'[c], ZeroRate)
              /\ inf_t'[c] = inf_t[c]
              /\ inft_pow'[c] = inft_pow[c]
              /\ inf_pot'[c] = inf_pot[c]
              /\ inf_cum'[c] = inf_cum[c]]_vars

\* C5 witness: a dry call on a cell that has an episode under way, potential
\* depth left and infiltration behind it.
C5_Witness ==
    \E c \in Cells :
        /\ Called /\ wdepth[c] < mwd
        /\ inf_t[c] > 0 /\ inf_pot[c] > 0 /\ inf_cum[c] > 0

\* C6: a call that finds a wet cell with opportunity time > 0 and
\* 0 < potential depth < water depth gives it the rate potential depth /
\* timestep and leaves its potential depth 0.
C6_CapacityLimited ==
    [][\A c \in Cells :
          (Wet(wdepth'[c]) /\ inf_t[c] > 0
              /\ 0 < inf_pot[c] /\ inf_pot[c] < wdepth'[c]) =>
              /\ RateEq(inf_rate'[c], <<inf_pot[c], tstep'>>)
              /\ inf_pot'[c] = 0]_vars

\* C6 witness: such a call has just been made, with a timestep of 2.
C6_Witness ==
    \E c \in Cells :
        /\ Called /\ tstep = 2 /\ Wet(wdepth[c])
        /\ t_in[c] > 0 /\ 0 < pot_in[c] /\ pot_in[c] < wdepth[c]
        /\ inf_pot[c] = 0

\* C7: a call that finds a wet cell with opportunity time > 0 and potential
\* depth >= water depth, potential depth > 0, gives it the rate water depth /
\* timestep, lowers its potential depth by the water depth and leaves its
\* opportunity time alone.
C7_WaterLimited ==
    [][\A c \in Cells :
          (Wet(wdepth'[c]) /\ inf_t[c] > 0
              /\ inf_pot[c] >= wdepth'[c] /\ inf_pot[c] > 0) =>
              /\ RateEq(inf_rate'[c], <<wdepth'[c], tstep'>>)
              /\ inf_pot'[c] = inf_pot[c] - wdepth'[c]
              /\ inf_t'[c] = inf_t[c]]_vars

\* C7 witness: such a call has just been made with a positive water depth
\* below the potential depth.
C7_Witness ==
    \E c \in Cells :
        /\ Called /\ Wet(wdepth[c]) /\ wdepth[c] > 0
        /\ t_in[c] > 0 /\ pot_in[c] > wdepth[c]
        /\ inf_pot[c] > 0

\* C8: a call with timestep dt that finds a wet cell with opportunity time 0
\* grants it k*dt^a + f0*dt + C: that is the potential depth the rate
\* assignment reads, and it is rate*dt + potential depth after the call.
C8_EpisodeStart ==
    [][\A c \in Cells :
          (Wet(wdepth'[c]) /\ inf_t[c] = 0) =>
              /\ pot_seen'[c] = k * Pow(tstep', a) + f0 * tstep' + C
              /\ inf_rate'[c][1] * tstep' + inf_pot'[c] * inf_rate'[c][2]
                     = (k * Pow(tstep', a) + f0 * tstep' + C) * inf_rate'[c][2]]_vars

\* C8 witness: an episode has just started with all three terms of the law
\* positive and a timestep of 2.
C8_Witness ==
    \E c \in Cells :
        /\ Called /\ Wet(wdepth[c]) /\ t_in[c] = 0
        /\ tstep = 2 /\ a = 2 /\ k > 0 /\ f0 > 0 /\ C > 0

\* C9: a call with timestep dt that finds a wet cell with opportunity time
\* T > 0 and potential depth 0 leaves its opportunity time T + dt and grants
\* it k*((T+dt)^a - T^a) + f0*dt before the rate assignment.
C9_EpisodeContinuation ==
    [][\A c \in Cells :
          (Wet(wdepth'[c]) /\ inf_t[c] > 0 /\ inf_pot[c] = 0) =>
              /\ inf_t'[c] = inf_t[c] + tstep'
              /\ pot_seen'[c] =
                     k * (Pow(inf_t[c] + tstep', a) - Pow(inf_t[c], a))
                         + f0 * tstep']_vars

\* C9 witness: an episode has just been continued and the grant is not the
\* full value of the law at the new opportunity time.
C9_Witness ==
    \E c \in Cells :
        /\ Called /\ Wet(wdepth[c])
        /\ t_in[c] > 0 /\ pot_in[c] = 0
        /\ pot_seen[c] > 0
        /\ pot_seen[c] # MK(inf_t[c])

\* C10: no call lowers a cell's opportunity time or returns it to 0, the
\* episode-start pass acts on a cell at most once, and in every state a cell
\* holds the opportunity time and potential depth its latest wet call left,
\* whatever dry calls came after.
C10_NoResetOnDrying ==
    /\ [][\A c \in Cells :
             /\ inf_t'[c] >= inf_t[c]
             /\ inf_t[c] > 0 => inf_t'[c] > 0]_vars
    /\ [](\A c \in Cells : starts[c] <= 1)
    /\ [](\A c \in Cells : <<inf_t[c], inf_pot[c]>> = last_wet[c])

\* C10 witness: a cell that dried during its episode is wet again and its
\* episode has gone on from where it stood.
C10_Witness ==
    \E c \in Cells :
        /\ dried[c] /\ Wet(wdepth[c])
        /\ t_in[c] > 0 /\ inf_t[c] > t_in[c]
        /\ starts[c] = 1


\* C11: every invocation of infilt_function makes exactly one call of
\* mk_infilt, and what it returns is, cell by cell, the negation of the rate
\* that call computed: every returned element is <= 0 and is -rate.
C11_AdapterNegatesRate ==
    /\ invoked = calls
    /\ \A c \in Cells :
          /\ ret[c][2] > 0 /\ ret[c][1] <= 0
          /\ ret[c][1] * inf_rate[c][2] + inf_rate[c][1] * ret[c][2] = 0

\* C11 witness: infilt_function has returned a negative rate for a cell in
\* two invocations running.
C11_Witness ==
    \E c \in Cells :
        /\ invoked > 1
        /\ ret[c][1] < 0
        /\ inf_cum[c] > Infiltrated(c)

\* C12: a call of mk_infilt with timestep <= 0 raises InvalidTimestep and
\* leaves the per-cell state as it found it.
C12_InvalidTimestepRaised ==
    (calls > 0 /\ tstep <= 0) =>
        /\ raised = "InvalidTimestep"
        /\ \A c \in Cells : inf_t[c] = t_in[c] /\ inf_pot[c] = pot_in[c]

\* C13: no model with a negative a, k, f0 or C is built and advanced:
\* construction with such a value fails with InvalidParameters.
C13_NegativeParametersRejected ==
    calls > 0 => (a >= 0 /\ k >= 0 /\ f0 >= 0 /\ C >= 0)

\* The square of the distance from the centroid of cell c to the midpoint of
\* the x-extent and the quarter-point of the y-extent.
ToQuarterPoint(c) ==
    LET mx == extent[1] + (extent[2] - extent[1]) \div 2
        qy == extent[3] + (extent[4] - extent[3]) \div 4
    IN  (xcoord[c] - mx) * (xcoord[c] - mx) + (ycoord[c] - qy) * (ycoord[c] - qy)

\* C14: with diagnostics enabled, construction tracks the lowest-index cell
\* among those whose centroid is nearest to (midpoint of the x-extent,
\* quarter-point of the y-extent), whatever the extent.
C14_TracksNearestToQuarterPoint ==
    (test /\ built) =>
        \A c \in Cells :
            /\ ToQuarterPoint(index_k) <= ToQuarterPoint(c)
            /\ ToQuarterPoint(c) = ToQuarterPoint(index_k) => index_k <= c

\* A list that has changed has gained one element at its end.
Appended(h, hp) == Len(hp) = Len(h) + 1 /\ SubSeq(hp, 1, Len(h)) = h

\* C15: with diagnostics enabled, every call appends one record to the five
\* lists, holding the simulation time of the call and the tracked cell's
\* opportunity time, cumulative infiltration, potential depth and water depth
\* as the call left them; so each list is as long as the number of calls; and
\* the export writes, after the header, one row per record, in order, with the
\* five values in that column order.
C15_OneRecordPerCall ==
    /\ []((test /\ built) =>
            /\ \A h \in {model_time, cell_oppt, cell_inf, cell_unsat, cell_wdepth} :
                   Len(h) = calls
            /\ calls > 0 =>
                   /\ model_time[calls] = time - tstep
                   /\ cell_oppt[calls] = inf_t[index_k]
                   /\ cell_inf[calls] = inf_cum[index_k]
                   /\ cell_unsat[calls] = inf_pot[index_k]
                   /\ cell_wdepth[calls] = wdepth[index_k]
            /\ csv # <<>> =>
                   /\ Len(csv) = calls + 1
                   /\ \A i \in 1..calls :
                          csv[i + 1] = <<ToString(model_time[i]), ToString(cell_oppt[i]),
                                         ToString(cell_inf[i]), ToString(cell_unsat[i]),
                                         ToString(cell_wdepth[i])>>)
    /\ [][(test /\ built /\ calls' # calls) =>
             /\ calls' = calls + 1
             /\ Appended(model_time, model_time')
             /\ Appended(cell_oppt, cell_oppt')
             /\ Appended(cell_inf, cell_inf')
             /\ Appended(cell_unsat, cell_unsat')
             /\ Appended(cell_wdepth, cell_wdepth')]_vars

\* C15 witness: the file has been written after three calls; the tracked cell
\* is not the first cell, has infiltrated, and stands elsewhere in its episode
\* than the first cell.
C15_Witness ==
    /\ test /\ built
    /\ csv # <<>> /\ calls = 3
    /\ index_k # 1
    /\ cell_inf[calls] > 0
    /\ cell_unsat[calls] # cell_inf[calls]
    /\ inf_cum[1] # inf_cum[index_k]

\* C16: the episode-start pass and the continuation pass never both act on a
\* cell in one call: after the call that finds an untouched cell wet, the
\* cell's opportunity time is that call's timestep, whatever the parameters.
C16_StartedCellHasOneTimestep ==
    \A c \in Cells :
        (calls > 0 /\ Wet(wdepth[c]) /\ t_in[c] = 0) => inf_t[c] = tstep

\* C17: opportunity time advances only when the capacity has been met.  The
\* wet call that follows a wet call which left a cell with potential depth 0
\* and opportunity time T > 0, whatever dry calls lie between, leaves the
\* cell's opportunity time T + timestep; and a call that finds a cell with
\* opportunity time > 0 and potential depth > 0 leaves its opportunity time
\* alone.
C17_TimeAdvancesOnlyWhenSatisfied ==
    [][\A c \in Cells :
          /\ (Wet(wdepth'[c]) /\ last_wet[c][1] > 0 /\ last_wet[c][2] = 0) =>
                 inf_t'[c] = last_wet[c][1] + tstep'
          /\ (inf_t[c] > 0 /\ inf_pot[c] > 0) => inf_t'[c] = inf_t[c]]_vars

\* C17 witness: a cell whose capacity had been met dried, is wet again and
\* its opportunity time has advanced by the timestep of the call.
C17_Witness ==
    \E c \in Cells :
        /\ dried[c] /\ Wet(wdepth[c])
        /\ t_in[c] > 0 /\ pot_in[c] = 0
        /\ inf_t[c] = t_in[c] + tstep
        /\ pot_seen[c] > 0

\* C18: every cell with opportunity time T > 0 has cumulative infiltration
\* + potential depth = k*T^a + f0*T + C.
C18_MassBalance ==
    \A c \in Cells :
        inf_t[c] > 0 => inf_cum[c] + inf_pot[c] = MK(inf_t[c])

\* C18 witness: a cell that dried in between has been granted capacity over
\* timesteps of different lengths under a law that is not linear, the last
\* call being a continuation.
C18_Witness ==
    \E c \in Cells :
        /\ dried[c] /\ inf_t[c] >= 3
        /\ a = 2 /\ k > 0 /\ f0 > 0
        /\ t_in[c] > 0 /\ inf_t[c] > t_in[c] /\ inf_t[c] # 2 * t_in[c]
        /\ inf_cum[c] > 0

\* C19 as claimed: after construction and after every call, every cell's
\* cached power is its opportunity time to the power a, untouched cells and
\* a = 0 included.
C19_CachedPowerAlways ==
    \A c \in Cells : inft_pow[c] = Pow(inf_t[c], a)

\* C19 as amended: after construction and after every call, the cached power
\* of a cell with opportunity time > 0 is its opportunity time to the power
\* a, and the cached power of an untouched cell is 0.
C19_CachedPowerOnceStarted ==
    \A c \in Cells :
        /\ inf_t[c] > 0 => inft_pow[c] = Pow(inf_t[c], a)
        /\ inf_t[c] = 0 => inft_pow[c] = 0

\* C19 witness: the continuation pass has recomputed the cached power of a
\* cell under a = 2.
C19_Witness ==
    \E c \in Cells :
        /\ a = 2
        /\ t_in[c] > 0 /\ inf_t[c] > t_in[c]
        /\ inft_pow[c] > inf_t[c]

\* Every variable has the shape the code gives it.
TypeOK ==
    /\ a \in 0..2
    /\ inf_t \in [Cells -> Nat]
    /\ inf_pot \in [Cells -> Int]
    /\ inf_cum \in [Cells -> Int]
    /\ inft_pow \in [Cells -> Nat]
    /\ \A c \in Cells : inf_rate[c] \in Int \X Int
    /\ time \in 0..MaxTime
====
